---- MODULE Spec2Model ----
(***************************************************************************)
(* A model of dump_ciede2000 (src/src/main.rs): kernel selection, the      *)
(* frame loop of main, the scalar and the AVX2 row kernels at the level of *)
(* bytes, chunks and lanes, and the frame aggregator.                      *)
(*                                                                         *)
(* Floating point is outside TLA+.  Distances are fixed-point integers in  *)
(* units of 1e-3, means in units of 1e-6 and scores in units of 1e-2; an   *)
(* f64 is a record that is finite, +inf, -inf or NaN, so that log10(0) and *)
(* 0/0 keep the outcome IEEE-754 gives them.                               *)
(***************************************************************************)
EXTENDS Integers, Sequences, FiniteSets, TLC

\* ------------------------------------------------------------------ bounds
MaxWidth == 10
MaxHeight == 2
MaxFrames == 2
MaxLimit == 2

\* ------------------------------------------------------------- small tools
Min(a, b) == IF a < b THEN a ELSE b

Abs(a) == IF a < 0 THEN -a ELSE a

\* a sequence given by a rule, built once as a tuple
AsTuple(f) == <<>> \o f

\* x >> n and x << n on usize values
Shr(x, n) == x \div (2 ^ n)

Shl(x, n) == x * (2 ^ n)

None == [some |-> FALSE, v |-> 0]

Some(x) == [some |-> TRUE, v |-> x]

\* ------------------------------------------------------------------- f64
Fin(x) == [k |-> "fin", v |-> x]

PosInf == [k |-> "inf", v |-> 0]

NegInf == [k |-> "-inf", v |-> 0]

NaN == [k |-> "nan", v |-> 0]

IsFinite(x) == x.k = "fin"

Neg(x) ==
  CASE x.k = "fin" -> Fin(-x.v)
    [] x.k = "inf" -> NegInf
    [] x.k = "-inf" -> PosInf
    [] OTHER -> NaN

\* f64 addition: inf + (-inf) and anything with NaN are NaN
FAdd(x, y) ==
  CASE x.k = "nan" \/ y.k = "nan" -> NaN
    [] x.k = "fin" /\ y.k = "fin" -> Fin(x.v + y.v)
    [] x.k = "fin" -> y
    [] y.k = "fin" -> x
    [] x.k = y.k -> x
    [] OTHER -> NaN

\* f64 division by a frame count converted to f64 (n >= 0): x/0 is +-inf, 0/0 is NaN
FDivCount(x, n) ==
  CASE x.k = "nan" -> NaN
    [] x.k # "fin" -> x
    [] n = 0 /\ x.v = 0 -> NaN
    [] n = 0 /\ x.v > 0 -> PosInf
    [] n = 0 -> NegInf
    [] OTHER -> Fin(x.v \div n)

\* largest k with 10^k <= m, for 1 <= m < 10^7
Decade(m) ==
  CHOOSE k \in 0..6 : 10 ^ k <= m /\ m < 10 ^ (k + 1)

\* 100 * log10(m * 1e-6) for a mean of m micro-units: exact on the powers of
\* ten, linear inside a decade; log10(0) is -inf as in IEEE-754
Log10Micro(m) ==
  IF m = 0 THEN NegInf
  ELSE LET k == Decade(m)
       IN Fin(100 * (k - 6) + (100 * (m - 10 ^ k)) \div (9 * 10 ^ k))

\* ------------------------------------------------- colorspace (lines 108-176)
\* y4m colorspaces main can be handed; C420jpeg, C420paldv and C420mpeg2 are
\* mapped like C420 and are left out of the inputs
Colorspaces ==
  {"Cmono", "C420", "C420p10", "C420p12", "C422", "C422p10", "C422p12",
   "C444", "C444p10", "C444p12"}

map_y4m_color_space(color_space) ==
  CASE color_space = "Cmono" -> "Cs400"
    [] color_space \in {"C420jpeg", "C420paldv", "C420mpeg2"} -> "Cs420"
    [] color_space \in {"C420", "C420p10", "C420p12"} -> "Cs420"
    [] color_space \in {"C422", "C422p10", "C422p12"} -> "Cs422"
    [] color_space \in {"C444", "C444p10", "C444p12"} -> "Cs444"

get_bit_depth(color_space) ==
  CASE color_space \in {"C420p10", "C422p10", "C444p10"} -> 10
    [] color_space \in {"C420p12", "C422p12", "C444p12"} -> 12
    [] OTHER -> 8

get_bytes_per_sample(color_space) ==
  IF get_bit_depth(color_space) = 8 THEN 1 ELSE 2

\* (xdec, ydec) of a sampling, main.rs 166-174; Cs400 falls through as (1, 1)
Decimation(sampling) ==
  CASE sampling = "Cs420" -> <<1, 1>>
    [] sampling = "Cs422" -> <<1, 0>>
    [] sampling = "Cs444" -> <<0, 0>>
    [] sampling = "Cs400" -> <<1, 1>>

\* ------------------------------------------------------ row kernels: tools
\* slice.chunks(n)
Chunks(s, n) ==
  AsTuple([k \in 1..((Len(s) + n - 1) \div n) |->
     SubSeq(s, (k - 1) * n + 1, Min(k * n, Len(s)))])

\* itertools::interleave(a, b): a1, b1, a2, b2, ... and, once one side is
\* exhausted, the rest of the other
Interleave(a, b) ==
  LET m == Min(Len(a), Len(b))
  IN AsTuple([k \in 1..(Len(a) + Len(b)) |->
        IF k <= 2 * m
        THEN IF k % 2 = 1 THEN a[(k + 1) \div 2] ELSE b[k \div 2]
        ELSE IF Len(a) > m THEN a[k - m] ELSE b[k - m]])

twice(i) == Interleave(i, i)

\* |input: &[u8]| ((input[1] as u16) << 8) | (input[0] as u16)
to_u16(input) == Shl(input[2], 8) + input[1]

\* the length of the shortest of the zipped iterators (izip! stops there)
ZipLen(lens) == CHOOSE n \in lens : \A m \in lens : n <= m

\* CIEDE2000 of the two triples after yuv -> rgb -> Lab, as a fixed-point
\* stand-in in units of 1e-3 (DE2000::new is in mod delta_e, which is not
\* among the sources, and its float arithmetic is outside TLA+): the
\* differences are normalised by the bit-depth scale as yuv_to_rgb does, and
\* equal triples are at distance 0, as the same triple gives the same Lab
\* point twice and distance(a, a) = 0
delta_e_scalar(BIT_DEPTH, yuv1, yuv2) ==
  LET scale == Shl(1, BIT_DEPTH - 8)
  IN (8 * (4 * Abs(yuv1[1] - yuv2[1]) + 2 * Abs(yuv1[2] - yuv2[2])
           + Abs(yuv1[3] - yuv2[3]))) \div scale

\* one write of a row kernel: *res = delta_e(t1, t2) at position pos (1-based)
Write(pos, t1, t2) == [pos |-> pos, t1 |-> t1, t2 |-> t2]

\* the items the scalar kernel's iterators yield for one plane of a row
ScalarLuma(BIT_DEPTH, y) ==
  IF BIT_DEPTH = 8 THEN y
  ELSE LET c == Chunks(y, 2) IN AsTuple([k \in 1..Len(c) |-> to_u16(c[k])])

ScalarChroma(BIT_DEPTH, X_DECIMATION, u) ==
  IF BIT_DEPTH = 8
  THEN IF X_DECIMATION = 1 THEN twice(u) ELSE u
  ELSE LET c == IF X_DECIMATION = 1 THEN twice(Chunks(u, 2)) ELSE Chunks(u, 2)
       IN AsTuple([k \in 1..Len(c) |-> to_u16(c[k])])

\* DeltaEScalar::delta_e_row_scalar: the sequence of writes into res_row
delta_e_row_scalar(BIT_DEPTH, X_DECIMATION, row1, row2, res_len) ==
  LET y1 == ScalarLuma(BIT_DEPTH, row1.y)
      u1 == ScalarChroma(BIT_DEPTH, X_DECIMATION, row1.u)
      v1 == ScalarChroma(BIT_DEPTH, X_DECIMATION, row1.v)
      y2 == ScalarLuma(BIT_DEPTH, row2.y)
      u2 == ScalarChroma(BIT_DEPTH, X_DECIMATION, row2.u)
      v2 == ScalarChroma(BIT_DEPTH, X_DECIMATION, row2.v)
      n == ZipLen({Len(y1), Len(u1), Len(v1), Len(y2), Len(u2), Len(v2), res_len})
  IN AsTuple([k \in 1..n |->
        Write(k, <<y1[k], u1[k], v1[k]>>, <<y2[k], u2[k], v2[k]>>)])

\* ------------------------------------------------- row kernels: AVX2 path
\* a raw load of n bytes from chunk.as_ptr(): the load does not look at the
\* chunk's length, a byte past the chunk is marked -1 (no sample byte is)
RawLoad(chunk, n) ==
  AsTuple([k \in 1..n |-> IF k <= Len(chunk) THEN chunk[k] ELSE -1])

\* _mm_unpacklo_epi8/_epi16(a, b) on the low items of a and b
unpacklo(a, b) == Interleave(a, b)

\* the little-endian 16-bit words of a byte vector
Words(bytes) ==
  AsTuple([k \in 1..(Len(bytes) \div 2) |-> bytes[2 * k - 1] + 256 * bytes[2 * k]])

\* load_luma: 8 lanes from 8 bytes (8 bit) or from 16 bytes (10/12 bit)
load_luma(BIT_DEPTH, chunk) ==
  IF BIT_DEPTH = 8
  THEN RawLoad(chunk, 8)
  ELSE Words(RawLoad(chunk, 16))

\* load_chroma without the unpack: the 4 loaded samples are not duplicated
load_chroma_no_unpack(BIT_DEPTH, chunk) ==
  IF BIT_DEPTH = 8
  THEN RawLoad(chunk, 4) \o <<0, 0, 0, 0>>
  ELSE Words(RawLoad(chunk, 8)) \o <<0, 0, 0, 0>>

\* load_chroma: 4 samples are loaded and each is duplicated into two lanes
load_chroma(BIT_DEPTH, chunk) ==
  IF BIT_DEPTH = 8
  THEN LET tmp == RawLoad(chunk, 4) IN unpacklo(tmp, tmp)
  ELSE LET tmp == Words(RawLoad(chunk, 8)) IN unpacklo(tmp, tmp)

RECURSIVE Flatten(_)
Flatten(seqs) ==
  IF seqs = <<>> THEN <<>> ELSE Head(seqs) \o Flatten(Tail(seqs))

\* DeltaEAVX2::delta_e_row_avx2, block by block: the zipped chunks of one
\* iteration of its loop, the branch taken and the writes made.  A block whose
\* row-1 luma chunk is full takes the vector branch (delta_e_avx2 writes
\* res_chunk[0..8]); any other block is handed to delta_e_row_scalar
avx2_blocks(BIT_DEPTH, X_DECIMATION, row1, row2, res_len) ==
  LET bw == IF BIT_DEPTH = 8 THEN 1 ELSE 2
      cy1 == Chunks(row1.y, 8 * bw)
      cu1 == Chunks(row1.u, 4 * bw)
      cv1 == Chunks(row1.v, 4 * bw)
      cy2 == Chunks(row2.y, 8 * bw)
      cu2 == Chunks(row2.u, 4 * bw)
      cv2 == Chunks(row2.v, 4 * bw)
      res == Chunks(AsTuple([k \in 1..res_len |-> k]), 8)
      n == ZipLen({Len(cy1), Len(cu1), Len(cv1), Len(cy2), Len(cu2), Len(cv2),
                   Len(res)})
      Block(k) ==
        IF Len(cy1[k]) = 8 * bw
        THEN LET y1 == load_luma(BIT_DEPTH, cy1[k])
                 u1 == load_chroma(BIT_DEPTH, cu1[k])
                 v1 == load_chroma(BIT_DEPTH, cv1[k])
                 y2 == load_luma(BIT_DEPTH, cy2[k])
                 u2 == load_chroma(BIT_DEPTH, cu2[k])
                 v2 == load_chroma(BIT_DEPTH, cv2[k])
             IN AsTuple([l \in 1..8 |->
                   Write(res[k][l], <<y1[l], u1[l], v1[l]>>,
                         <<y2[l], u2[l], v2[l]>>)])
        ELSE LET tail == delta_e_row_scalar(BIT_DEPTH, X_DECIMATION,
                           [y |-> cy1[k], u |-> cu1[k], v |-> cv1[k]],
                           [y |-> cy2[k], u |-> cu2[k], v |-> cv2[k]],
                           Len(res[k]))
             IN AsTuple([l \in 1..Len(tail) |->
                   Write(res[k][tail[l].pos], tail[l].t1, tail[l].t2)])
  IN AsTuple([k \in 1..n |->
       [path |-> IF Len(cy1[k]) = 8 * bw THEN "vector" ELSE "scalar",
        row1 |-> [y |-> cy1[k], u |-> cu1[k], v |-> cv1[k]],
        row2 |-> [y |-> cy2[k], u |-> cu2[k], v |-> cv2[k]],
        res_chunk |-> res[k],
        writes |-> Block(k)]])

\* DeltaEAVX2::delta_e_row_avx2: the sequence of writes into res_row
delta_e_row_avx2(BIT_DEPTH, X_DECIMATION, row1, row2, res_len) ==
  LET blocks == avx2_blocks(BIT_DEPTH, X_DECIMATION, row1, row2, res_len)
  IN Flatten(AsTuple([k \in 1..Len(blocks) |-> blocks[k].writes]))

\* ------------------------------------------- kernel selection (lines 262-323)
\* the marker types that implement Colorspace, with their associated consts
KernelType(name, bd, xd) == [type |-> name, BIT_DEPTH |-> bd, X_DECIMATION |-> xd]

BD8 == KernelType("BD8", 8, 1)

BD10 == KernelType("BD10", 10, 1)

BD12 == KernelType("BD12", 12, 1)

BD8_444 == KernelType("BD8_444", 8, 0)

BD10_444 == KernelType("BD10_444", 10, 0)

BD12_444 == KernelType("BD12_444", 12, 0)

\* a DeltaERowFn: which row function of which type; unreachable!() panics
RowFn(kind, ty) == [kind |-> kind, ty |-> ty]

Unreachable == [kind |-> "panic", ty |-> KernelType("none", 0, 0)]

\* get_delta_e_row_fn with the 12-bit scalar arm naming the 10-bit type
get_delta_e_row_fn_wrong_arm(avx2, bit_depth, xdec, simd) ==
  IF avx2 /\ xdec = 1 /\ simd
  THEN CASE bit_depth = 8 -> RowFn("avx2", BD8)
         [] bit_depth = 10 -> RowFn("avx2", BD10)
         [] bit_depth = 12 -> RowFn("avx2", BD12)
         [] OTHER -> Unreachable
  ELSE CASE bit_depth = 8 /\ xdec = 1 -> RowFn("scalar", BD8)
         [] bit_depth = 10 /\ xdec = 1 -> RowFn("scalar", BD10)
         [] bit_depth = 12 /\ xdec = 1 -> RowFn("scalar", BD10)
         [] bit_depth = 8 /\ xdec = 0 -> RowFn("scalar", BD8_444)
         [] bit_depth = 10 /\ xdec = 0 -> RowFn("scalar", BD10_444)
         [] bit_depth = 12 /\ xdec = 0 -> RowFn("scalar", BD12_444)
         [] OTHER -> Unreachable

\* get_delta_e_row_fn without the test of the simd option
get_delta_e_row_fn_ignores_simd(avx2, bit_depth, xdec, simd) ==
  IF avx2 /\ xdec = 1
  THEN CASE bit_depth = 8 -> RowFn("avx2", BD8)
         [] bit_depth = 10 -> RowFn("avx2", BD10)
         [] bit_depth = 12 -> RowFn("avx2", BD12)
         [] OTHER -> Unreachable
  ELSE CASE bit_depth = 8 /\ xdec = 1 -> RowFn("scalar", BD8)
         [] bit_depth = 10 /\ xdec = 1 -> RowFn("scalar", BD10)
         [] bit_depth = 12 /\ xdec = 1 -> RowFn("scalar", BD12)
         [] bit_depth = 8 /\ xdec = 0 -> RowFn("scalar", BD8_444)
         [] bit_depth = 10 /\ xdec = 0 -> RowFn("scalar", BD10_444)
         [] bit_depth = 12 /\ xdec = 0 -> RowFn("scalar", BD12_444)
         [] OTHER -> Unreachable

\* get_delta_e_row_fn; avx2 is is_x86_feature_detected!("avx2")
get_delta_e_row_fn(avx2, bit_depth, xdec, simd) ==
  IF avx2 /\ xdec = 1 /\ simd
  THEN CASE bit_depth = 8 -> RowFn("avx2", BD8)
         [] bit_depth = 10 -> RowFn("avx2", BD10)
         [] bit_depth = 12 -> RowFn("avx2", BD12)
         [] OTHER -> Unreachable
  ELSE CASE bit_depth = 8 /\ xdec = 1 -> RowFn("scalar", BD8)
         [] bit_depth = 10 /\ xdec = 1 -> RowFn("scalar", BD10)
         [] bit_depth = 12 /\ xdec = 1 -> RowFn("scalar", BD12)
         [] bit_depth = 8 /\ xdec = 0 -> RowFn("scalar", BD8_444)
         [] bit_depth = 10 /\ xdec = 0 -> RowFn("scalar", BD10_444)
         [] bit_depth = 12 /\ xdec = 0 -> RowFn("scalar", BD12_444)
         [] OTHER -> Unreachable

\* a call through the function pointer
CallRowFn(fn, row1, row2, res_len) ==
  IF fn.kind = "avx2"
  THEN delta_e_row_avx2(fn.ty.BIT_DEPTH, fn.ty.X_DECIMATION, row1, row2, res_len)
  ELSE delta_e_row_scalar(fn.ty.BIT_DEPTH, fn.ty.X_DECIMATION, row1, row2, res_len)

\* ---------------------------------------------------------------- state
VARIABLES
  input,          \* the two decoded y4m streams: colorspace, width, height,
                  \* frames held by each (n1, n2), and whether both hold the
                  \* same pictures
  cli,            \* CliOptions: simd, limit
  cpu_avx2,       \* is_x86_feature_detected!("avx2")
  pc,             \* where main is: start, loop, rows, total, done, panic
  delta_e_row_fn, \* the selected row kernel
  pos,            \* frames read_frame has yielded so far, per video
  i,              \* the row index of the for loop
  delta_e_vec,    \* the Distance Buffer of the frame being processed
  writes,         \* history: how often each entry of delta_e_vec was written
  used,           \* history: the two Sample Triples of each entry's last write
  fns_called,     \* history: the row functions called so far
  num_frames,
  total,
  scores,         \* history: the per-frame scores in the order computed
  stdout,         \* the "Total:" lines printed
  stderr          \* the messages printed to stderr

vars ==
  <<input, cli, cpu_avx2, pc, delta_e_row_fn, pos, i, delta_e_vec, writes,
    used, fns_called, num_frames, total, scores, stdout, stderr>>

\* ---------------------------------------------- locals of main (148-191)
width == input.width

height == input.height

sampling == map_y4m_color_space(input.colorspace)

bit_depth == get_bit_depth(input.colorspace)

bytewidth == get_bytes_per_sample(input.colorspace)

xdec == Decimation(sampling)[1]

ydec == Decimation(sampling)[2]

y_stride == width * bytewidth

\* the chroma stride with the width decimated once too often
c_stride_decimated_twice == Shr(width, xdec + 1) * bytewidth

c_stride == Shr(width, xdec) * bytewidth

\* ------------------------------------------------ the decoded frames (y4m)
\* samples per row and rows of a plane as the y4m decoder lays it out: chroma
\* planes of subsampled formats round odd dimensions up, Cmono has no chroma
PlaneWidth(p) ==
  CASE p = "y" -> width
    [] sampling = "Cs400" -> 0
    [] sampling = "Cs444" -> width
    [] OTHER -> (width + 1) \div 2

PlaneHeight(p) ==
  CASE p = "y" -> height
    [] sampling = "Cs400" -> 0
    [] sampling = "Cs420" -> (height + 1) \div 2
    [] OTHER -> height

PlaneLen(p) == PlaneWidth(p) * PlaneHeight(p) * bytewidth

\* the sample of plane p of frame f of video vid at row r, column c: distinct
\* positions of a plane hold distinct values; the second video differs from
\* the first in every sample unless both inputs hold the same pictures
Sample(vid, f, p, r, c) ==
  LET base == CASE p = "y" -> 16 [] p = "u" -> 80 [] OTHER -> 144
      delta == CASE vid = 1 \/ input.same -> 0
                 [] p = "y" -> f + 1
                 [] OTHER -> 1
  IN (base + 16 * r + c + f) * Shl(1, bit_depth - 8) + delta

\* byte idx (0-based) of a plane: samples are stored little-endian, row-major
PlaneByte(vid, f, p, idx) ==
  LET s == idx \div bytewidth
      v == Sample(vid, f, p, s \div PlaneWidth(p), s % PlaneWidth(p))
  IN Shr(v, 8 * (idx % bytewidth)) % 256

\* &plane[a..][..n] panics unless a + n <= plane.len()
SliceOk(p, a, n) == a + n <= PlaneLen(p)

Slice(vid, f, p, a, n) == AsTuple([k \in 1..n |-> PlaneByte(vid, f, p, a + k - 1)])

\* the FrameRow main builds for row r of frame f of video vid (208-217)
FrameRow(vid, f, r) ==
  [y |-> Slice(vid, f, "y", r * y_stride, y_stride),
   u |-> Slice(vid, f, "u", Shr(r, ydec) * c_stride, c_stride),
   v |-> Slice(vid, f, "v", Shr(r, ydec) * c_stride, c_stride)]

FrameRowOk(r) ==
  /\ SliceOk("y", r * y_stride, y_stride)
  /\ SliceOk("u", Shr(r, ydec) * c_stride, c_stride)
  /\ SliceOk("v", Shr(r, ydec) * c_stride, c_stride)

\* -------------------------------------------------------- frame aggregator
RECURSIVE SumSeq(_)
SumSeq(s) == IF s = <<>> THEN 0 ELSE Head(s) + SumSeq(Tail(s))

\* 45. - 20. * (sum / (width * height)).log10(), in units of 1e-2
Score(vec, n) ==
  LET l == Log10Micro((1000 * SumSeq(vec)) \div n)
  IN IF IsFinite(l) THEN Fin(4500 - 20 * l.v) ELSE Neg(l)

\* total = score: the running total overwritten instead of added to
Accumulate_overwrites(t, score) == score

\* total += score
Accumulate(t, score) == FAdd(t, score)

\* if let Some(limit) = cli.limit { if num_frames >= limit { break } }
LimitReached(limit, n) == limit.some /\ n >= limit.v

\* ---------------------------------------------------------------- Init
Limits == {None} \cup {Some(l) : l \in 0..MaxLimit}

Inputs ==
  {[colorspace |-> cs, width |-> w, height |-> h, n1 |-> a, n2 |-> b,
    same |-> s] :
     cs \in Colorspaces, w \in 1..MaxWidth, h \in 1..MaxHeight,
     a \in 0..MaxFrames, b \in 0..MaxFrames, s \in BOOLEAN}

Init ==
  /\ input \in {x \in Inputs : x.same => x.n1 = x.n2}
  /\ cli \in {[simd |-> s, limit |-> l] : s \in BOOLEAN, l \in Limits}
  /\ cpu_avx2 \in BOOLEAN
  /\ pc = "start"
  /\ delta_e_row_fn = Unreachable
  /\ pos = <<0, 0>>
  /\ i = 0
  /\ delta_e_vec = <<>>
  /\ writes = <<>>
  /\ used = <<>>
  /\ fns_called = {}
  /\ num_frames = 0
  /\ total = Fin(0)
  /\ scores = <<>>
  /\ stdout = <<>>
  /\ stderr = <<>>

\* --------------------------------------------------------------- actions
\* main 148-194: the grayscale message (no exit follows it), the strides and
\* the one call of get_delta_e_row_fn
Select ==
  /\ pc = "start"
  /\ stderr' = IF sampling = "Cs400"
               THEN Append(stderr, "Grayscale is unsupported.")
               ELSE stderr
  /\ delta_e_row_fn' = get_delta_e_row_fn(cpu_avx2, bit_depth, xdec, cli.simd)
  /\ pc' = IF delta_e_row_fn'.kind = "panic" THEN "panic" ELSE "loop"
  /\ UNCHANGED <<input, cli, cpu_avx2, pos, i, delta_e_vec, writes, used,
                 fns_called, num_frames, total, scores, stdout>>

\* main 196-204 and 238-240: both read_frame calls are made; two pictures
\* start a frame with a zeroed buffer, anything else leaves the loop
ReadFrames ==
  /\ pc = "loop"
  /\ LET ok1 == pos[1] < input.n1
         ok2 == pos[2] < input.n2
     IN /\ pos' = <<pos[1] + (IF ok1 THEN 1 ELSE 0),
                    pos[2] + (IF ok2 THEN 1 ELSE 0)>>
        /\ IF ok1 /\ ok2
           THEN /\ pc' = "rows"
                /\ i' = 0
                /\ delta_e_vec' = AsTuple([k \in 1..(width * height) |-> 0])
                /\ writes' = AsTuple([k \in 1..(width * height) |-> 0])
                /\ used' = AsTuple([k \in 1..(width * height) |-> <<>>])
           ELSE /\ pc' = "total"
                /\ UNCHANGED <<i, delta_e_vec, writes, used>>
  /\ UNCHANGED <<input, cli, cpu_avx2, delta_e_row_fn, fns_called, num_frames,
                 total, scores, stdout, stderr>>

\* the writes one call of the selected kernel makes for row r of the pictures
\* just read (frames pos[1]-1 and pos[2]-1), as positions in delta_e_vec
RowWrites(fn, r) ==
  LET w == CallRowFn(fn, FrameRow(1, pos[1] - 1, r), FrameRow(2, pos[2] - 1, r),
                     width)
  IN AsTuple([k \in 1..Len(w) |-> Write(r * width + w[k].pos, w[k].t1, w[k].t2)])

WritesAt(ws, k) == {j \in 1..Len(ws) : ws[j].pos = k}

LastWriteAt(ws, k) ==
  ws[CHOOSE j \in WritesAt(ws, k) : \A m \in WritesAt(ws, k) : m <= j]

\* main 205-221: one iteration of the row loop; slicing a plane past its end
\* panics
RowStep ==
  /\ pc = "rows"
  /\ i < height
  /\ IF FrameRowOk(i)
     THEN \E ws \in {RowWrites(delta_e_row_fn, i)} :
             /\ delta_e_vec' =
                  AsTuple([k \in 1..Len(delta_e_vec) |->
                     IF WritesAt(ws, k) = {} THEN delta_e_vec[k]
                     ELSE delta_e_scalar(delta_e_row_fn.ty.BIT_DEPTH,
                                         LastWriteAt(ws, k).t1,
                                         LastWriteAt(ws, k).t2)])
             /\ writes' = AsTuple([k \in 1..Len(writes) |->
                             writes[k] + Cardinality(WritesAt(ws, k))])
             /\ used' = AsTuple([k \in 1..Len(used) |->
                           IF WritesAt(ws, k) = {} THEN used[k]
                           ELSE <<LastWriteAt(ws, k).t1, LastWriteAt(ws, k).t2>>])
             /\ fns_called' = fns_called \cup {delta_e_row_fn}
             /\ i' = i + 1
             /\ pc' = "rows"
     ELSE /\ pc' = "panic"
          /\ UNCHANGED <<i, delta_e_vec, writes, used, fns_called>>
  /\ UNCHANGED <<input, cli, cpu_avx2, delta_e_row_fn, pos, num_frames, total,
                 scores, stdout, stderr>>

\* main 222-236: the frame's score, the running total, the frame counter and
\* the limit test
Aggregate ==
  /\ pc = "rows"
  /\ i = height
  /\ LET score == Score(delta_e_vec, width * height)
     IN /\ total' = Accumulate(total, score)
        /\ scores' = Append(scores, score)
  /\ num_frames' = num_frames + 1
  /\ pc' = IF LimitReached(cli.limit, num_frames') THEN "total" ELSE "loop"
  /\ UNCHANGED <<input, cli, cpu_avx2, delta_e_row_fn, pos, i, delta_e_vec,
                 writes, used, fns_called, stdout, stderr>>

\* main 243: println!("Total: {:2.4}", total / (num_frames as f64))
PrintTotal ==
  /\ pc = "total"
  /\ stdout' = Append(stdout, FDivCount(total, num_frames))
  /\ pc' = "done"
  /\ UNCHANGED <<input, cli, cpu_avx2, delta_e_row_fn, pos, i, delta_e_vec,
                 writes, used, fns_called, num_frames, total, scores, stderr>>

Next == Select \/ ReadFrames \/ RowStep \/ Aggregate \/ PrintTotal

Spec == Init /\ [][Next]_vars

\* ------------------------------------------------------------ the claims
Supported == sampling \in {"Cs420", "Cs422", "Cs444"}

FrameDone == pc = "rows" /\ i = height

\* C1: for every width >= 1, supported bit depth and supported chroma layout,
\* one call of the selected row kernel writes each of the w entries of its
\* row exactly once, so that after the last row every entry of the Distance
\* Buffer has been written exactly once.
C1_EveryEntryWrittenOnce ==
  (Supported /\ pc = "rows") =>
    \A r \in 0..(i - 1) : \A c \in 1..width : writes[r * width + c] = 1

\* the pair of Sample Triples pixel (r, c) of the frame being processed is to
\* be built from when its chroma comes from chroma position (ci, cj)
TriplesOf(r, c, ci, cj) ==
  <<<<Sample(1, pos[1] - 1, "y", r, c), Sample(1, pos[1] - 1, "u", ci, cj),
      Sample(1, pos[1] - 1, "v", ci, cj)>>,
    <<Sample(2, pos[2] - 1, "y", r, c), Sample(2, pos[2] - 1, "u", ci, cj),
      Sample(2, pos[2] - 1, "v", ci, cj)>>>>

\* C2: in a 4:2:0 frame the chroma sample at chroma row ci, column cj is the
\* one used (u and v, replicated) for the luma pixels (2ci, 2cj), (2ci, 2cj+1),
\* (2ci+1, 2cj) and (2ci+1, 2cj+1) that lie inside the frame, for the scalar
\* and for the vectorized kernel.
C2_ChromaReplicated ==
  (sampling = "Cs420" /\ FrameDone) =>
    \A ci \in 0..(PlaneHeight("u") - 1) : \A cj \in 0..(PlaneWidth("u") - 1) :
      \A dr \in 0..1 : \A dc \in 0..1 :
        LET r == 2 * ci + dr
            c == 2 * cj + dc
        IN (r < height /\ c < width) =>
             used[r * width + c + 1] = TriplesOf(r, c, ci, cj)

C4_UnsupportedIsFatal ==
  ~Supported =>
    /\ pc \in {"start", "panic"}
    /\ pos = <<0, 0>>
    /\ fns_called = {}
    /\ scores = <<>>
    /\ stdout = <<>>

\* C5: when the frame loop ends with frame_count = 0 no total is computed or
\* printed; total / frame_count is only ever evaluated with frame_count >= 1.
C5_NoDivisionByZeroFrames ==
  (Supported /\ stdout # <<>>) => num_frames >= 1

\* the frame just scored had every entry of its buffer written and mean 0
ZeroMeanFrameScored ==
  /\ Supported
  /\ pc \in {"loop", "total"}
  /\ num_frames >= 1
  /\ \A k \in 1..Len(writes) : writes[k] = 1
  /\ SumSeq(delta_e_vec) = 0

\* C6: a frame whose Distance Buffer has mean 0 (two identical input frames)
\* gets a defined, finite score, and the running total stays finite: neither
\* is NaN or infinite.
C6_ZeroMeanScoreFinite ==
  ZeroMeanFrameScored =>
    /\ IsFinite(scores[num_frames])
    /\ IsFinite(total)

\* C7: with a frame-count limit L >= 0 the number of frames processed never
\* exceeds L.
C7_LimitBoundsFrames ==
  (Supported /\ cli.limit.some) => num_frames <= cli.limit.v

\* the key of the selected kernel's type is the dispatch key
KeyMatches ==
  /\ delta_e_row_fn.ty.BIT_DEPTH = bit_depth
  /\ delta_e_row_fn.ty.X_DECIMATION = Decimation(sampling)[1]

\* C8 as stated: for each of the 9 keys the scalar kernel of the key is
\* selected, and the vectorized kernel of the key whenever the processor has
\* AVX2 and the simd option is on.
C8_EveryKeyVectorized ==
  (Supported /\ pc # "start") =>
    /\ KeyMatches
    /\ delta_e_row_fn.kind = IF cpu_avx2 /\ cli.simd THEN "avx2" ELSE "scalar"

\* C8 as amended: for each of the 9 keys the selected kernel's BIT_DEPTH and
\* X_DECIMATION are the key's; it is the vectorized kernel exactly when the
\* processor has AVX2, the simd option is on and the layout is 4:2:0 or 4:2:2
\* (xdec = 1), and the scalar kernel otherwise: the three 4:4:4 keys have no
\* vectorized kernel.
C8_VectorizedOnlyWhenDecimated ==
  (Supported /\ pc # "start") =>
    /\ KeyMatches
    /\ delta_e_row_fn.kind =
         IF cpu_avx2 /\ cli.simd /\ sampling # "Cs444" THEN "avx2" ELSE "scalar"

\* a 12-bit 4:2:0 run without acceleration and a 4:4:4 run with it, each with
\* the kernel selected and a row processed
C8_Witness ==
  /\ fns_called = {delta_e_row_fn}
  /\ \/ sampling = "Cs444" /\ cpu_avx2 /\ cli.simd /\ bit_depth = 10
     \/ sampling = "Cs420" /\ ~cli.simd /\ bit_depth = 12

\* C9: the kernel is chosen exactly once per run, before the first frame is
\* read, and that kernel is the one applied to every row of every frame; with
\* the simd option off it is the scalar kernel whatever the processor has.
C9_SelectedOncePerRun ==
  [][/\ pc # "start" => delta_e_row_fn' = delta_e_row_fn
     /\ pc = "start" => pos = <<0, 0>> /\ pos' = <<0, 0>> /\ fns_called' = {}
     /\ fns_called' \subseteq {delta_e_row_fn'}
     /\ fns_called' # fns_called => fns_called' = {delta_e_row_fn}
     /\ (~cli.simd /\ pc' # "start") => delta_e_row_fn'.kind # "avx2"]_vars

\* two frames processed with the simd option off on a processor with AVX2
C9_Witness ==
  /\ ~cli.simd
  /\ cpu_avx2
  /\ sampling = "Cs420"
  /\ num_frames = 2
  /\ pc = "done"
  /\ fns_called = {delta_e_row_fn}
  /\ delta_e_row_fn.kind = "scalar"

RECURSIVE FSum(_)
FSum(s) == IF s = <<>> THEN Fin(0) ELSE FAdd(Head(s), FSum(Tail(s)))

\* C10: the running total changes exactly once per frame, after all height
\* rows of the frame, with frame k of both inputs processed k-th; between
\* frames total is the sum of the scores of the num_frames frames processed,
\* and the result printed at the end is total / num_frames (a mean distance
\* of 0.001 scores 105, and scores 105, 85 and 65 give 85).
C10_TotalIsSumOfScores ==
  /\ [](/\ Len(scores) = num_frames
        /\ total = FSum(scores)
        /\ pc = "rows" => pos = <<num_frames + 1, num_frames + 1>>
        /\ pc = "done" => stdout = <<FDivCount(FSum(scores), num_frames)>>
        /\ Score(<<1>>, 1) = Fin(10500)
        /\ FDivCount(FSum(<<Fin(10500), Fin(8500), Fin(6500)>>), 3) = Fin(8500))
  /\ [][(total' # total \/ num_frames' # num_frames \/ scores' # scores) =>
          /\ pc = "rows" /\ i = height
          /\ \A k \in 1..Len(writes) : writes[k] <= 1
          /\ num_frames' = num_frames + 1
          /\ scores' = Append(scores, Score(delta_e_vec, width * height))]_vars

\* two frames with different finite scores were processed and their mean
\* printed
C10_Witness ==
  /\ pc = "done"
  /\ num_frames = 2
  /\ IsFinite(scores[1]) /\ IsFinite(scores[2])
  /\ scores[1] # scores[2]
  /\ stdout = <<Fin((scores[1].v + scores[2].v) \div 2)>>

\* the blocks of the vectorized kernel on row r of the pictures just read
BlocksOfRow(r) ==
  avx2_blocks(delta_e_row_fn.ty.BIT_DEPTH, delta_e_row_fn.ty.X_DECIMATION,
              FrameRow(1, pos[1] - 1, r), FrameRow(2, pos[2] - 1, r), width)

\* the writes of all blocks that go to position p of the row
BlockWritesAt(blocks, p) ==
  {<<k, l>> \in (1..Len(blocks)) \X (1..8) :
     l <= Len(blocks[k].writes) /\ blocks[k].writes[l].pos = p}

\* block k is the k-th run of 8 pixels of the row, or what is left of the row
ConsecutiveBlocks(blocks) ==
  /\ Len(blocks) = (width + 7) \div 8
  /\ \A k \in 1..Len(blocks) :
       blocks[k].res_chunk =
         [l \in 1..(Min(8 * k, width) - 8 * (k - 1)) |-> 8 * (k - 1) + l]

\* complete blocks take the vector path; a remainder takes the scalar kernel
\* with the luma samples of its pixels and the chroma samples that cover them
PathAndSamples(blocks) ==
  \A k \in 1..Len(blocks) :
    LET pixels == Len(blocks[k].res_chunk)
    IN /\ blocks[k].path = IF pixels = 8 THEN "vector" ELSE "scalar"
       /\ \A row \in {blocks[k].row1, blocks[k].row2} :
            /\ Len(row.y) = pixels * bytewidth
            /\ Len(row.u) = ((pixels + 1) \div 2) * bytewidth
            /\ Len(row.v) = ((pixels + 1) \div 2) * bytewidth

\* C12: the vectorized kernel processes a row in consecutive blocks of 8
\* pixels; every complete block takes the vector path and a trailing remainder
\* of fewer than 8 pixels is handed to the scalar kernel with exactly the luma
\* and chroma samples of those pixels, so that the blocks and the remainder
\* together cover each pixel of the row once.
C12_BlocksCoverRow ==
  (Supported /\ pc = "rows" /\ delta_e_row_fn.kind = "avx2" /\ width > 8) =>
    \A r \in 0..(height - 1) :
      \A blocks \in {BlocksOfRow(r)} :
        /\ ConsecutiveBlocks(blocks)
        /\ PathAndSamples(blocks)
        /\ \A p \in 1..width : Cardinality(BlockWritesAt(blocks, p)) = 1

\* every lane of both triples of a write came from inside a chunk
LanesLoaded(w) ==
  \A t \in {w.t1, w.t2} : \A c \in 1..3 : t[c] >= 0

\* the chunks of a block hold what the vector branch loads and stores: 8 luma
\* samples and 4 chroma samples per plane and row, and 8 result entries
VectorBlockInBounds(b) ==
  /\ \A row \in {b.row1, b.row2} :
       /\ Len(row.y) = 8 * bytewidth
       /\ Len(row.u) >= 4 * bytewidth
       /\ Len(row.v) >= 4 * bytewidth
  /\ Len(b.res_chunk) = 8
  /\ \A l \in 1..Len(b.writes) : LanesLoaded(b.writes[l])

\* C13: the vector branch is guarded by the length of row 1's luma chunk only,
\* yet on the row slices main builds (luma width * bytes, chroma
\* (width >> 1) * bytes) every block that takes it has full luma chunks in
\* both rows, 4 samples in each of the four chroma chunks and 8 entries in the
\* result chunk, so that no raw load or store leaves its chunk.
C13_VectorBranchInBounds ==
  (pc = "rows" /\ delta_e_row_fn.kind = "avx2") =>
    \A r \in 0..(height - 1) :
      FrameRowOk(r) =>
        /\ \A vid \in 1..2 :
             /\ Len(FrameRow(vid, pos[vid] - 1, r).y) = width * bytewidth
             /\ Len(FrameRow(vid, pos[vid] - 1, r).u) = Shr(width, 1) * bytewidth
             /\ Len(FrameRow(vid, pos[vid] - 1, r).v) = Shr(width, 1) * bytewidth
        /\ \A blocks \in {BlocksOfRow(r)} :
             \A k \in 1..Len(blocks) :
               blocks[k].path = "vector" => VectorBlockInBounds(blocks[k])

\* a 12-bit row of 9 pixels went through the vectorized kernel: its first
\* block took the vector branch and wrote its 8 entries
C13_Witness ==
  /\ pc = "rows"
  /\ delta_e_row_fn.kind = "avx2"
  /\ bit_depth = 12
  /\ width = 9
  /\ i >= 1
  /\ BlocksOfRow(0)[1].path = "vector"
  /\ \A p \in 1..8 : writes[p] = 1

\* the run is over: the total was printed, or the process died on a slice
Ended == pc \in {"done", "panic"}

\* the number of frames the loop scores on inputs of n1 and n2 frames
FramesExpected ==
  IF cli.limit.some
  THEN Min(Min(input.n1, input.n2), cli.limit.v)
  ELSE Min(input.n1, input.n2)

\* C14: the frame loop compares frame k of input 1 with frame k of input 2,
\* stops at the first index where either input yields no frame, and, with no
\* limit or a limit L >= 1, has scored exactly min(n1, n2) resp.
\* min(n1, n2, L) frames when the run is over, the total having been printed
\* exactly once, after the loop.
C14_FrameLoopOutcome ==
  /\ pc = "rows" => (pos[1] = pos[2] /\ pos[1] = num_frames + 1)
  /\ pc \in {"start", "loop", "rows", "total"} => stdout = <<>>
  /\ (Ended /\ (cli.limit.some => cli.limit.v >= 1)) =>
       /\ num_frames = FramesExpected
       /\ Len(stdout) = 1

====
